---------------------------- MODULE Spec2Model ----------------------------
(***************************************************************************)
(* GetItDone: a task/goal tracking API (FastAPI handlers over three        *)
(* PostgreSQL tables, users / goals / tasks).  Every handler runs one      *)
(* transaction, so every handler is one atomic action of this model.       *)
(*                                                                         *)
(* Tables are sets of rows (records).  SQL NULL and Python None are Null.  *)
(* Timestamps are positive integers read from the clock `now`; now() of a  *)
(* later transaction is later than every timestamp stored before it.       *)
(* Strings that the code inspects (names matched by ILIKE, usernames       *)
(* matched by a regular expression) are sequences of one-character         *)
(* strings.  A date string 'YYYY-MM-DD' is a tuple <<y, m, d>>, the empty  *)
(* string is <<>>.                                                         *)
(***************************************************************************)
EXTENDS Integers, Sequences, FiniteSets, TLC

\* users, goals, tasks: the three tables (their committed rows); userSeq,
\* goalSeq, taskSeq: the last id each table's sequence handed out; now: the
\* clock; req: a search request received and not yet answered; txns: the
\* transactions of the requests that run concurrently; client: the caller
\* that pages through a search; resp: the last response sent
VARIABLES users, goals, tasks, userSeq, goalSeq, taskSeq, now, req, txns,
          client, resp

vars ==
    <<users, goals, tasks, userSeq, goalSeq, taskSeq, now, req, txns, client, resp>>

\* SQL NULL / Python None, of a number or a timestamp
Null == -1
\* Python None of a date string (a date string is a tuple of numbers)
NoneStr == <<Null>>
\* SQL NULL / Python None of a text (a text is a tuple of characters)
NullText == <<"NULL">>

(***************************************************************************)
(* Bounds of the model                                                     *)
(***************************************************************************)
\* last id the goals_id_seq sequence hands out
MaxGoalId == 3
\* last value of the clock
MaxTime == 5

UserIds == {1, 2}
GoalIds == 1..MaxGoalId
GoalNames == { <<"r", "u", "n">>, <<"R", "e", "a", "d">> }

NoResp == [op |-> "none", arg |-> <<>>, status |-> 0, body |-> <<>>]
NoReq == [op |-> "none"]
\* a caller that is not paging: no row fetched, no request made
IdleClient == [pc |-> "idle", fetched |-> <<>>, requests |-> 0]

\* An error returned in the body of a 200 response, or raised as HTTPException
IsError(r) == r.status # 200 \/ "error" \in DOMAIN r.body

(***************************************************************************)
(* goals.py                                                                *)
(***************************************************************************)
\* The schema relates tasks.goal to goals.id, and goals.user and tasks.user to
\* users.id (the schema is not part of src/); it names no action on delete, so
\* a DELETE leaves the rows that refer to the deleted rows as they are
TasksAfterGoalsDeleted(deleted) == tasks
GoalsAfterUsersDeleted(deleted) == goals
TasksAfterUsersDeleted(deleted) == tasks

\* Column defaults of the goals table (the schema is not part of src/)
GoalColumnDefaults(t) ==
    [complete |-> FALSE, date_created |-> t, date_completed |-> Null]

\* check_existing without the "user" = :user condition (mutant)
CheckExistingGoalAnyUser(u, g) ==
    { r \in goals : r.goal_name = g }

\* WITH check_existing AS (SELECT id FROM goals WHERE "user" = :user and goal_name = :goal_name)
CheckExistingGoal(u, g) ==
    { r \in goals : r.user = u /\ r.goal_name = g }

\* INSERT INTO goals (goal_name, "user") SELECT :goal_name, :user ... RETURNING id
InsertedGoal(u, g) ==
    [id |-> goalSeq + 1, user |-> u, goal_name |-> g,
     complete |-> GoalColumnDefaults(now).complete,
     date_created |-> GoalColumnDefaults(now).date_created,
     date_completed |-> GoalColumnDefaults(now).date_completed]

create_goal(user_id, goal_name) ==
    LET arg == [user_id |-> user_id, goal_name |-> goal_name] IN
    IF CheckExistingGoal(user_id, goal_name) = {}
    THEN /\ goalSeq < MaxGoalId
         /\ now < MaxTime
         /\ goals' = goals \cup {InsertedGoal(user_id, goal_name)}
         /\ goalSeq' = goalSeq + 1
         /\ now' = now + 1
         /\ resp' = [op |-> "create_goal", arg |-> arg, status |-> 200,
                     body |-> [user |-> user_id, goal_id |-> goalSeq + 1,
                               goal_name |-> goal_name]]
         /\ UNCHANGED <<users, tasks, userSeq, taskSeq>>
    ELSE /\ resp' = [op |-> "create_goal", arg |-> arg, status |-> 409,
                     body |-> [detail |-> "Task Already Created"]]
         /\ UNCHANGED <<users, goals, tasks, userSeq, goalSeq, taskSeq, now>>

\* SET complete = true only (mutant: the timestamp is forgotten)
CompletedGoalNoDate(r, t) ==
    [r EXCEPT !.complete = TRUE]

\* SET date_completed = now() only (mutant: the flag is forgotten)
CompletedGoalNoFlag(r, t) ==
    [r EXCEPT !.date_completed = t]

\* UPDATE goals SET complete = true, date_completed = now()
CompletedGoal(r, t) ==
    [r EXCEPT !.complete = TRUE, !.date_completed = t]

\* WHERE id = :id only (mutant: the owner is not checked)
GoalRowsOfId(user_id, goal_id) ==
    { r \in goals : r.id = goal_id }

\* WHERE id = :id AND "user" = :user
GoalRowsOfOwner(user_id, goal_id) ==
    { r \in goals : r.id = goal_id /\ r.user = user_id }

complete_goal(user_id, goal_id) ==
    LET arg == [user_id |-> user_id, goal_id |-> goal_id]
        hit == GoalRowsOfOwner(user_id, goal_id)
    IN
    IF hit # {}
    THEN /\ now < MaxTime
         /\ goals' = (goals \ hit) \cup { CompletedGoal(r, now) : r \in hit }
         /\ now' = now + 1
         /\ resp' = [op |-> "complete_goal", arg |-> arg, status |-> 200,
                     body |-> [user |-> user_id, goal_id |-> goal_id,
                               goal_name |-> (CHOOSE r \in hit : TRUE).goal_name,
                               status |-> "complete"]]
         /\ UNCHANGED <<users, tasks, userSeq, goalSeq, taskSeq>>
    ELSE /\ resp' = [op |-> "complete_goal", arg |-> arg, status |-> 404,
                     body |-> [detail |-> "Goal Not Found"]]
         /\ UNCHANGED <<users, goals, tasks, userSeq, goalSeq, taskSeq, now>>

delete_goal(user_id, goal_id) ==
    LET arg == [user_id |-> user_id, goal_id |-> goal_id]
        hit == GoalRowsOfOwner(user_id, goal_id)
    IN
    IF hit # {}
    THEN /\ goals' = goals \ hit
         /\ tasks' = TasksAfterGoalsDeleted(hit)
         /\ resp' = [op |-> "delete_goal", arg |-> arg, status |-> 200,
                     body |-> [user |-> user_id, goal_id |-> goal_id,
                               goal_name |-> (CHOOSE r \in hit : TRUE).goal_name,
                               status |-> "successfully deleted"]]
         /\ UNCHANGED <<users, userSeq, goalSeq, taskSeq, now>>
    ELSE /\ resp' = [op |-> "delete_goal", arg |-> arg, status |-> 404,
                     body |-> [detail |-> "Goal Not Found"]]
         /\ UNCHANGED <<users, goals, tasks, userSeq, goalSeq, taskSeq, now>>

(***************************************************************************)
(* tasks.py                                                                *)
(***************************************************************************)
\* last id the tasks_id_seq sequence hands out
MaxTaskId == 2

TaskNames == { <<"g", "y", "m">> }
\* minutes_taken : int = None
MinutesIn == {Null, 0, 30}
\* date_completed : str = None; absent, '', two days, and 30 February
DateStringsIn ==
    {NoneStr, <<>>, <<2024, 1, 5>>, <<2024, 1, 6>>, <<2024, 2, 30>>}
\* description : str = None
DescriptionsIn == {NullText}
\* goal_id : int = None
TaskGoalIdsIn == {Null}

\* Python truthiness of an optional int: None and 0 are false
TruthyInt(n) == n # Null /\ n # 0

\* Python truthiness of an optional str: None and '' are false
TruthyStr(s) == s # NoneStr /\ s # <<>>

IsLeapYear(y) == (y % 4 = 0 /\ y % 100 # 0) \/ y % 400 = 0

DaysInMonth(y, m) ==
    IF m = 2 THEN (IF IsLeapYear(y) THEN 29 ELSE 28)
    ELSE IF m \in {4, 6, 9, 11} THEN 30 ELSE 31

\* datetime.strptime(date, '%Y-%m-%d') succeeds
validate_date(date) ==
    /\ Len(date) = 3
    /\ date[1] \in 1..9999
    /\ date[2] \in 1..12
    /\ date[3] \in 1..DaysInMonth(date[1], date[2])

\* The calendar starts with the clock: tick 0 is midnight of this day
Epoch == <<2024, 1, 1>>
\* clock ticks per day
TicksPerDay == 2

DaysInYear(y) == IF IsLeapYear(y) THEN 366 ELSE 365

RECURSIVE DaysBeforeYear(_)
DaysBeforeYear(y) ==
    IF y <= Epoch[1] THEN 0 ELSE DaysInYear(y - 1) + DaysBeforeYear(y - 1)

RECURSIVE DaysBeforeMonth(_, _)
DaysBeforeMonth(y, m) ==
    IF m <= 1 THEN 0 ELSE DaysInMonth(y, m - 1) + DaysBeforeMonth(y, m - 1)

\* days from Epoch to a date (of Epoch's year or later)
DayOrdinal(date) ==
    DaysBeforeYear(date[1]) + DaysBeforeMonth(date[1], date[2]) + (date[3] - 1)

\* The timestamp PostgreSQL stores for a date string: midnight of that day
DateValue(date) == DayOrdinal(date) * TicksPerDay

RECURSIVE DateFrom(_, _, _)
DateFrom(y, m, n) ==
    IF n >= DaysInYear(y) /\ m = 1 THEN DateFrom(y + 1, 1, n - DaysInYear(y))
    ELSE IF n >= DaysInMonth(y, m) THEN DateFrom(y, m + 1, n - DaysInMonth(y, m))
    ELSE <<y, m, n + 1>>

\* datetime.strftime(ts, '%Y-%m-%d'): the day a timestamp falls on
FormatDate(ts) == DateFrom(Epoch[1], 1, ts \div TicksPerDay)

\* The bound parameter :date_completed as the store sees it
DateParam(date) == IF date = NoneStr THEN Null ELSE DateValue(date)

\* Column defaults of the tasks table (the schema is not part of src/)
TaskColumnDefaults(t) == [date_created |-> t]

\* the guard without the test of complete (mutant)
CompletionFieldsOkIgnoringComplete(complete, minutes_taken, date_completed) ==
    \/ TruthyInt(minutes_taken) /\ TruthyStr(date_completed)
    \/ ~TruthyInt(minutes_taken) /\ ~TruthyStr(date_completed)

\* if complete is True and minutes_taken and date_completed: pass
\* elif complete is False and not minutes_taken and not date_completed: pass
CompletionFieldsOk(complete, minutes_taken, date_completed) ==
    \/ complete = TRUE /\ TruthyInt(minutes_taken) /\ TruthyStr(date_completed)
    \/ complete = FALSE /\ ~TruthyInt(minutes_taken) /\ ~TruthyStr(date_completed)

\* SQL: x = y is true only when neither side is NULL and the values are equal
SqlEq(x, y) == x # Null /\ y # Null /\ x = y

\* WITH check_existing AS (SELECT id FROM tasks WHERE "user" = :user
\*   and task_name = :task_name and date_completed = :date_completed)
CheckExistingTask(u, n, d) ==
    { r \in tasks : /\ r.user = u
                    /\ r.task_name = n
                    /\ SqlEq(r.date_completed, d) }

\* INSERT INTO tasks (task_name, description, "user", goal, complete,
\*   date_completed, time_taken) ... RETURNING id
InsertedTask(u, n, descr, g, c, d, m) ==
    [id |-> taskSeq + 1, user |-> u, goal |-> g, task_name |-> n,
     description |-> descr, complete |-> c,
     date_created |-> TaskColumnDefaults(now).date_created,
     date_completed |-> d, time_taken |-> m]

create_task(user_id, task_name, description, goal_id, complete, date_completed, minutes_taken) ==
    LET arg == [user_id |-> user_id, task_name |-> task_name,
                description |-> description, goal_id |-> goal_id,
                complete |-> complete, date_completed |-> date_completed,
                minutes_taken |-> minutes_taken]
        reply(st, b) == [op |-> "create_task", arg |-> arg, status |-> st, body |-> b]
        frame == UNCHANGED <<users, goals, tasks, userSeq, goalSeq, taskSeq, now>>
    IN
    IF ~CompletionFieldsOk(complete, minutes_taken, date_completed)
    THEN /\ resp' = reply(200, [error |->
                 "Completed tasks require minutes_taken and date_completed"])
         /\ frame
    ELSE IF TruthyStr(date_completed) /\ ~validate_date(date_completed)
    THEN /\ resp' = reply(200, [error |->
                 "Date_completed invalid must be (YYYY-MM-DD)"])
         /\ frame
    ELSE IF date_completed = <<>>
    THEN \* '' reaches the statement and is no date: the statement fails, the
         \* transaction rolls back and the request ends as a server error
         /\ resp' = reply(500, [detail |-> "Internal Server Error"])
         /\ frame
    ELSE IF CheckExistingTask(user_id, task_name, DateParam(date_completed)) # {}
    THEN /\ resp' = reply(200, [error |-> "Task Already Created"])
         /\ frame
    ELSE /\ taskSeq < MaxTaskId
         /\ now < MaxTime
         /\ tasks' = tasks \cup
               {InsertedTask(user_id, task_name, description, goal_id, complete,
                             DateParam(date_completed), minutes_taken)}
         /\ taskSeq' = taskSeq + 1
         /\ now' = now + 1
         /\ resp' = reply(200, [user |-> user_id, task_id |-> taskSeq + 1,
                                task_name |-> task_name,
                                description |-> description,
                                complete |-> complete])
         /\ UNCHANGED <<users, goals, userSeq, goalSeq>>

\* WHERE id = :id only (mutant: the owner is not checked)
TaskRowsOfId(user_id, task_id) ==
    { r \in tasks : r.id = task_id }

\* WHERE id = :id AND "user" = :user
TaskRowsOfOwner(user_id, task_id) ==
    { r \in tasks : r.id = task_id /\ r.user = user_id }

\* SET complete = true, time_taken = :minutes_taken, date_completed =
\*   CASE WHEN :date_completed IS NOT NULL THEN :date_completed ELSE now() END
CompletedTask(r, minutes_taken, date_completed, t) ==
    [r EXCEPT !.complete = TRUE,
              !.time_taken = minutes_taken,
              !.date_completed = IF DateParam(date_completed) # Null
                                 THEN DateParam(date_completed) ELSE t]

complete_task(user_id, task_id, minutes_taken, date_completed) ==
    LET arg == [user_id |-> user_id, task_id |-> task_id,
                minutes_taken |-> minutes_taken, date_completed |-> date_completed]
        reply(st, b) == [op |-> "complete_task", arg |-> arg, status |-> st, body |-> b]
        frame == UNCHANGED <<users, goals, tasks, userSeq, goalSeq, taskSeq, now>>
        hit == TaskRowsOfOwner(user_id, task_id)
    IN
    IF TruthyStr(date_completed) /\ ~validate_date(date_completed)
    THEN /\ resp' = reply(200, [error |->
                 "Date_completed invalid must be (YYYY-MM-DD)"])
         /\ frame
    ELSE IF date_completed = <<>>
    THEN \* '' reaches the statement and is no timestamp: the statement fails
         \* and the transaction rolls back
         /\ resp' = reply(500, [detail |-> "Internal Server Error"])
         /\ frame
    ELSE IF hit = {}
    THEN /\ resp' = reply(200, [error |-> "Task Not Found"])
         /\ frame
    ELSE /\ DateParam(date_completed) = Null => now < MaxTime
         /\ tasks' = (tasks \ hit) \cup
               { CompletedTask(r, minutes_taken, date_completed, now) : r \in hit }
         /\ now' = IF DateParam(date_completed) = Null THEN now + 1 ELSE now
         /\ resp' = reply(200, [user |-> user_id, task_id |-> task_id,
                                task_name |-> (CHOOSE r \in hit : TRUE).task_name,
                                complete |-> TRUE])
         /\ UNCHANGED <<users, goals, userSeq, goalSeq, taskSeq>>

\* UPDATE tasks SET goal = :goal_id
TaskWithGoal(r, goal_id) == [r EXCEPT !.goal = goal_id]

set_task_goal(user_id, task_id, goal_id) ==
    LET arg == [user_id |-> user_id, task_id |-> task_id, goal_id |-> goal_id]
        reply(b) == [op |-> "set_task_goal", arg |-> arg, status |-> 200, body |-> b]
        hit == TaskRowsOfOwner(user_id, task_id)
    IN
    IF hit = {}
    THEN /\ resp' = reply([error |-> "Task Not Found"])
         /\ UNCHANGED <<users, goals, tasks, userSeq, goalSeq, taskSeq, now>>
    ELSE /\ tasks' = (tasks \ hit) \cup { TaskWithGoal(r, goal_id) : r \in hit }
         /\ resp' = reply([user |-> user_id, task_id |-> task_id,
                           task_name |-> (CHOOSE r \in hit : TRUE).task_name,
                           status |-> "complete"])
         /\ UNCHANGED <<users, goals, userSeq, goalSeq, taskSeq, now>>

delete_task(user_id, task_id) ==
    LET arg == [user_id |-> user_id, task_id |-> task_id]
        reply(b) == [op |-> "delete_task", arg |-> arg, status |-> 200, body |-> b]
        hit == TaskRowsOfOwner(user_id, task_id)
    IN
    IF hit = {}
    THEN /\ resp' = reply([error |-> "Task Not Found"])
         /\ UNCHANGED <<users, goals, tasks, userSeq, goalSeq, taskSeq, now>>
    ELSE /\ tasks' = tasks \ hit
         /\ resp' = reply([user |-> user_id, task_id |-> task_id,
                           task_name |-> (CHOOSE r \in hit : TRUE).task_name,
                           status |-> "successfully deleted"])
         /\ UNCHANGED <<users, goals, userSeq, goalSeq, taskSeq, now>>

\* to_char(day, 'Day'): the day name, blank-padded to nine characters
DayNames ==
    <<"Monday   ", "Tuesday  ", "Wednesday", "Thursday ", "Friday   ",
      "Saturday ", "Sunday   ">>

\* to_char(ts, 'Day') of a timestamp (Epoch is a Monday)
ToCharDay(ts) == DayNames[((ts \div TicksPerDay) % 7) + 1]

\* generate_series(date_trunc('week', current_date),
\*   date_trunc('week', current_date) + interval '6 days', interval '1 day')
WeekDates(t) ==
    LET monday == ((t \div TicksPerDay) \div 7) * 7
    IN  { (monday + i) * TicksPerDay : i \in 0..6 }

\* LEFT JOIN tasks AS t ON to_char(t.date_completed, 'Day') =
\*   to_char(week_dates.day, 'Day') AND t.complete = true AND t.user = :user_id
\*   [AND t.goal = :goal_id]
DayJoin(day, user_id, goal_id) ==
    { t \in tasks : /\ t.date_completed # Null
                    /\ ToCharDay(t.date_completed) = ToCharDay(day)
                    /\ t.complete = TRUE
                    /\ t.user = user_id
                    /\ goal_id # Null => SqlEq(t.goal, goal_id) }

evaluate_days(user_id, goal_id) ==
    LET arg == [user_id |-> user_id, goal_id |-> goal_id]
        week == WeekDates(now)
        \* GROUP BY day_of_week, COUNT(t.id)
        groups == { ToCharDay(day) : day \in week }
        entry == [g \in groups |->
                    Cardinality(UNION { { <<day, t.id>> :
                                            t \in DayJoin(day, user_id, goal_id) }
                                        : day \in { d \in week : ToCharDay(d) = g } })]
    IN
    /\ UNCHANGED <<users, goals, tasks, userSeq, goalSeq, taskSeq, now>>
    /\ IF groups = {}
       THEN resp' = [op |-> "evaluate_days", arg |-> arg, status |-> 200,
                     body |-> [error |-> "User not Found"]]
       ELSE resp' = [op |-> "evaluate_days", arg |-> arg, status |-> 200,
                     body |-> entry]



(***************************************************************************)
(* users.py                                                                *)
(***************************************************************************)
\* last id the users_id_seq sequence hands out
MaxUserId == 3

\* [a-zA-Z0-9_]
WordChars ==
    {"a", "b", "c", "d", "e", "f", "g", "h", "i", "j", "k", "l", "m",
     "n", "o", "p", "q", "r", "s", "t", "u", "v", "w", "x", "y", "z",
     "A", "B", "C", "D", "E", "F", "G", "H", "I", "J", "K", "L", "M",
     "N", "O", "P", "Q", "R", "S", "T", "U", "V", "W", "X", "Y", "Z",
     "0", "1", "2", "3", "4", "5", "6", "7", "8", "9", "_"}

\* re.match("^[a-zA-Z0-9_]+$", username), then 4 <= len(username) < 20
is_valid_username(username) ==
    IF ~(Len(username) >= 1 /\ \A i \in 1..Len(username) : username[i] \in WordChars)
    THEN FALSE
    ELSE IF Len(username) < 4 \/ Len(username) >= 20
    THEN FALSE
    ELSE TRUE

\* usernames of 4 and 19 characters (valid), of 3 and 20 characters and one
\* with a character outside the class (invalid)
UsernamesIn ==
    { <<"a", "l", "i", "c">>, [i \in 1..19 |-> "b"],
      <<"a", "l", "i">>, [i \in 1..20 |-> "c"], <<"a", "l", "i", "c", "!">> }
PasswordsIn == {"p@ss1234", "hunter2"}
PersonNamesIn == {"Alice"}
\* bcrypt.gensalt()
Salts == {"salt1", "salt2"}

\* bcrypt.hashpw(password, salt): the salt is kept in the hash
HashWith(salt, password) == <<salt, password>>

\* bcrypt.checkpw(password, hashed_password): hash again with the stored salt
verify_password(password, hashed_password) ==
    HashWith(hashed_password[1], password) = hashed_password

\* INSERT without WHERE NOT EXISTS (mutant: the existence check finds nothing)
CheckExistingUserSkipped(username) ==
    { r \in users : FALSE }

\* WITH check_existing AS (SELECT id FROM users WHERE username = :username)
CheckExistingUser(username) ==
    { r \in users : r.username = username }

\* INSERT INTO users (name, username, password) SELECT :name, :username,
\*   :password ... RETURNING id, password
InsertedUser(name, username, password, salt) ==
    [id |-> userSeq + 1, name |-> name, username |-> username,
     password |-> HashWith(salt, password)]

create_user(name, username, password, salt) ==
    LET arg == [name |-> name, username |-> username, password |-> password]
        reply(st, b) == [op |-> "create_user", arg |-> arg, status |-> st, body |-> b]
    IN
    IF is_valid_username(username) = FALSE
    THEN /\ resp' = reply(400, [detail |-> "Invalid Username"])
         /\ UNCHANGED <<users, goals, tasks, userSeq, goalSeq, taskSeq, now>>
    ELSE IF CheckExistingUser(username) # {}
    THEN /\ resp' = reply(409, [detail |-> "Username Taken"])
         /\ UNCHANGED <<users, goals, tasks, userSeq, goalSeq, taskSeq, now>>
    ELSE /\ userSeq < MaxUserId
         /\ users' = users \cup {InsertedUser(name, username, password, salt)}
         /\ userSeq' = userSeq + 1
         /\ resp' = reply(200, [id |-> userSeq + 1, name |-> name,
                                username |-> username])
         /\ UNCHANGED <<goals, tasks, goalSeq, taskSeq, now>>

\* DELETE FROM users (mutant: the WHERE clause is lost)
DeletedUserRowsAll(user_id) ==
    users

\* DELETE FROM users WHERE id = :user_id
DeletedUserRows(user_id) ==
    { r \in users : r.id = user_id }

delete_user(username, password) ==
    LET arg == [username |-> username, password |-> password]
        reply(st, b) == [op |-> "delete_user", arg |-> arg, status |-> st, body |-> b]
        found == { r \in users : r.username = username }
    IN
    IF found = {}
    THEN /\ resp' = reply(404, [detail |-> "User not Found"])
         /\ UNCHANGED <<users, goals, tasks, userSeq, goalSeq, taskSeq, now>>
    ELSE \E entry \in found :
           IF verify_password(password, entry.password) = FALSE
           THEN /\ resp' = reply(401, [detail |-> "Invalid Password"])
                /\ UNCHANGED <<users, goals, tasks, userSeq, goalSeq, taskSeq, now>>
           ELSE /\ users' = users \ DeletedUserRows(entry.id)
                /\ goals' = GoalsAfterUsersDeleted(DeletedUserRows(entry.id))
                /\ tasks' = TasksAfterUsersDeleted(DeletedUserRows(entry.id))
                /\ resp' = reply(200, [result |-> "Successfully Deleted User"])
                /\ UNCHANGED <<userSeq, goalSeq, taskSeq, now>>

validate_user(username, password) ==
    LET arg == [username |-> username, password |-> password]
        reply(st, b) == [op |-> "validate_user", arg |-> arg, status |-> st, body |-> b]
        found == { r \in users : r.username = username }
    IN
    /\ UNCHANGED <<users, goals, tasks, userSeq, goalSeq, taskSeq, now>>
    /\ IF found = {}
       THEN resp' = reply(404, [detail |-> "User not Found"])
       ELSE \E entry \in found :
              IF verify_password(password, entry.password) = FALSE
              THEN resp' = reply(401, [detail |-> "Invalid Password"])
              ELSE resp' = reply(200, [id |-> entry.id, name |-> entry.name,
                                       username |-> username])


(***************************************************************************)
(* create_user and create_goal as transactions.  `with db.engine.begin()`  *)
(* opens a transaction, the one statement runs in it, and leaving the      *)
(* block commits; the engine is created with the store's default           *)
(* isolation, READ COMMITTED: a statement sees the rows committed before   *)
(* it began and not the rows another transaction has inserted and not yet  *)
(* committed.  The handlers take no lock and do not retry.  A sequence     *)
(* hands out an id when the row is inserted, outside any transaction.      *)
(***************************************************************************)
TxnIds == {1, 2}

\* connection.execute(...) of transaction i: check_existing reads the
\* committed rows, the INSERT adds its row to the transaction's own writes
TxnExecute(i) ==
    LET r == txns[i].req IN
    /\ txns[i].pc = "begun"
    /\ IF r.op = "create_user"
       THEN IF CheckExistingUser(r.username) = {}
            THEN /\ userSeq < MaxUserId
                 /\ txns' = [txns EXCEPT ![i].pc = "executed",
                       ![i].written = {InsertedUser(r.name, r.username, r.password, r.salt)}]
                 /\ userSeq' = userSeq + 1
                 /\ UNCHANGED <<goalSeq, now>>
            ELSE /\ txns' = [txns EXCEPT ![i].pc = "executed"]
                 /\ UNCHANGED <<userSeq, goalSeq, now>>
       ELSE IF CheckExistingGoal(r.user_id, r.goal_name) = {}
            THEN /\ goalSeq < MaxGoalId
                 /\ now < MaxTime
                 /\ txns' = [txns EXCEPT ![i].pc = "executed",
                       ![i].written = {InsertedGoal(r.user_id, r.goal_name)}]
                 /\ goalSeq' = goalSeq + 1
                 /\ now' = now + 1
                 /\ UNCHANGED userSeq
            ELSE /\ txns' = [txns EXCEPT ![i].pc = "executed"]
                 /\ UNCHANGED <<userSeq, goalSeq, now>>
    /\ UNCHANGED <<users, goals, tasks, taskSeq, req, client, resp>>

\* the end of the `with` block of transaction i: the writes are committed
\* and the response is sent, 409 when RETURNING gave no row
TxnCommit(i) ==
    LET r == txns[i].req
        w == txns[i].written
        entry == CHOOSE row \in w : TRUE
        answer ==
            IF r.op = "create_user"
            THEN IF w = {}
                 THEN [op |-> r.op, arg |-> r, status |-> 409,
                       body |-> [detail |-> "Username Taken"]]
                 ELSE [op |-> r.op, arg |-> r, status |-> 200,
                       body |-> [id |-> entry.id, name |-> r.name,
                                 username |-> r.username]]
            ELSE IF w = {}
                 THEN [op |-> r.op, arg |-> r, status |-> 409,
                       body |-> [detail |-> "Task Already Created"]]
                 ELSE [op |-> r.op, arg |-> r, status |-> 200,
                       body |-> [user |-> r.user_id, goal_id |-> entry.id,
                                 goal_name |-> r.goal_name]]
    IN
    /\ txns[i].pc = "executed"
    /\ IF r.op = "create_user"
       THEN users' = users \cup w /\ UNCHANGED goals
       ELSE goals' = goals \cup w /\ UNCHANGED users
    /\ txns' = [txns EXCEPT ![i].pc = "done", ![i].written = {}, ![i].resp = answer]
    /\ resp' = answer
    /\ UNCHANGED <<tasks, userSeq, goalSeq, taskSeq, now, req, client>>


(***************************************************************************)
(* search_goals (goals.py) and search_tasks (tasks.py)                     *)
(***************************************************************************)
\* .offset(search_page * 5), `if i < 5`
PageSize == 5
\* .limit(6), `if len(result) >= 6`
FetchLimit == 6

Uppers == <<"A", "B", "C", "D", "E", "F", "G", "H", "I", "J", "K", "L", "M",
            "N", "O", "P", "Q", "R", "S", "T", "U", "V", "W", "X", "Y", "Z">>
Lowers == <<"a", "b", "c", "d", "e", "f", "g", "h", "i", "j", "k", "l", "m",
            "n", "o", "p", "q", "r", "s", "t", "u", "v", "w", "x", "y", "z">>

Lower(c) ==
    IF \E i \in 1..Len(Uppers) : Uppers[i] = c
    THEN Lowers[CHOOSE i \in 1..Len(Uppers) : Uppers[i] = c]
    ELSE c

\* text ILIKE pattern: % is any run of characters, _ any one character,
\* letters compare without case
RECURSIVE ILike(_, _)
ILike(text, pattern) ==
    IF pattern = <<>> THEN text = <<>>
    ELSE IF Head(pattern) = "%"
    THEN ILike(text, Tail(pattern)) \/ (text # <<>> /\ ILike(Tail(text), pattern))
    ELSE /\ text # <<>>
         /\ (Head(pattern) = "_" \/ Lower(Head(text)) = Lower(Head(pattern)))
         /\ ILike(Tail(text), Tail(pattern))

\* column.ilike(f"%{name}%")
ILikeContains(text, name) == ILike(text, <<"%">> \o name \o <<"%">>)

\* the caller's filter is used whatever the sort column (mutant)
EffectiveCompleteOptionAsGiven(sort_col, complete_options) ==
    complete_options

\* if sort_col is date_completed: complete_options = complete_options.complete
EffectiveCompleteOption(sort_col, complete_options) ==
    IF sort_col = "date_completed" THEN "complete" ELSE complete_options

\* if complete: complete == True; elif incomplete: complete == False
CompleteCondition(complete_options, complete) ==
    IF complete_options = "complete" THEN complete = TRUE
    ELSE IF complete_options = "incomplete" THEN complete = FALSE
    ELSE TRUE

\* the rows before the page: search_page * 6 (mutant: the fetch size is used)
PageOffsetByFetch(search_page) == search_page * FetchLimit

\* .offset(search_page * 5)
PageOffset(search_page) == search_page * PageSize

\* x sorts before y ascending; PostgreSQL sorts NULL as larger than any value
AscBefore(x, y) == x # Null /\ (y = Null \/ x < y)

\* sqlalchemy.desc(order_by) / sqlalchemy.asc(order_by)
KeyBefore(x, y, sort_order) ==
    IF sort_order = "desc" THEN AscBefore(y, x) ELSE AscBefore(x, y)

\* The order of rows with equal keys is not specified by ORDER BY; the store
\* returns them in id order, ascending or descending
TieBreaks == {"id_asc", "id_desc"}

JoinedBefore(a, b, sort_order, tie) ==
    \/ KeyBefore(a.key, b.key, sort_order)
    \/ /\ a.key = b.key
       /\ IF tie = "id_asc" THEN a.row.id < b.row.id ELSE a.row.id > b.row.id

\* .order_by(order_by): the selected rows as a list
OrderBy(S, sort_order, tie) ==
    [i \in 1..Cardinality(S) |->
        CHOOSE a \in S :
            Cardinality({ b \in S : JoinedBefore(b, a, sort_order, tie) }) = i - 1]

Min(a, b) == IF a < b THEN a ELSE b

\* .limit(n).offset(k)
LimitOffset(list, limit, offset) ==
    SubSeq(list, offset + 1, Min(Len(list), offset + limit))

\* next_page = -1; if len(result) >= 6: next_page = search_page + 1
NextPage(result, search_page) ==
    IF Len(result) >= FetchLimit THEN search_page + 1 ELSE -1

\* for row in result: if i < 5: i += 1 ...
RowsTaken(result) == Min(Len(result), PageSize)

\* if i == 0 and search_page > 1 (mutant: off by one)
PageOutOfBoundsLate(i, search_page) == i = 0 /\ search_page > 1

\* if i == 0 and search_page > 0
PageOutOfBounds(i, search_page) == i = 0 /\ search_page > 0

\* datetime.strftime(row.date_completed, '%Y-%m-%d') if row.date_completed else None
DateJson(ts) == IF ts # Null THEN FormatDate(ts) ELSE NoneStr

GoalJson(r) ==
    [goal_id |-> r.id, goal_name |-> r.goal_name, complete |-> r.complete,
     date_completed |-> DateJson(r.date_completed)]

\* where_conditions of search_goals
GoalWhere(r, user_id, goal_name, complete_options) ==
    /\ ILikeContains(r.goal_name, goal_name)
    /\ r.user = user_id
    /\ CompleteCondition(complete_options, r.complete)

\* order_by = db.goals.c.date_completed / db.goals.c.date_created
GoalOrderKey(g, sort_col) ==
    IF sort_col = "date_completed" THEN g.date_completed ELSE g.date_created

search_goals(user_id, goal_name, complete_options, search_page, sort_col, sort_order, tie) ==
    LET arg == [user_id |-> user_id, name |-> goal_name, goal_id |-> Null,
                complete_options |-> complete_options,
                search_page |-> search_page, sort_col |-> sort_col,
                sort_order |-> sort_order]
        reply(st, b) == [op |-> "search_goals", arg |-> arg, status |-> st, body |-> b]
        co == EffectiveCompleteOption(sort_col, complete_options)
        selected == { [key |-> GoalOrderKey(r, sort_col), row |-> r] :
                        r \in { g \in goals : GoalWhere(g, user_id, goal_name, co) } }
        result == LimitOffset(OrderBy(selected, sort_order, tie), FetchLimit,
                              PageOffset(search_page))
        i == RowsTaken(result)
        res == [j \in 1..i |-> GoalJson(result[j].row)]
    IN
    /\ UNCHANGED <<users, goals, tasks, userSeq, goalSeq, taskSeq, now>>
    /\ IF search_page < 0
       THEN resp' = reply(400, [detail |-> "Page out of bounds"])
       ELSE IF PageOutOfBounds(i, search_page)
       THEN resp' = reply(400, [detail |-> "Page out of bounds"])
       ELSE resp' = reply(200, [user_id |-> user_id,
                                next_page |-> NextPage(result, search_page),
                                start_entry |-> search_page * PageSize,
                                end_entry |-> search_page * PageSize + i - 1,
                                res |-> res])

TaskJson(j) ==
    [tasks_id |-> j.row.id, task_name |-> j.row.task_name,
     description |-> j.row.description, goal_id |-> j.row.goal,
     goal |-> j.goal_name, complete |-> j.row.complete,
     date_completed |-> DateJson(j.row.date_completed),
     minutes_taken |-> j.row.time_taken]

\* where_conditions of search_tasks
TaskWhere(t, user_id, task_name, goal_id, complete_options) ==
    /\ ILikeContains(t.task_name, task_name)
    /\ t.user = user_id
    /\ CompleteCondition(complete_options, t.complete)
    /\ TruthyInt(goal_id) => SqlEq(t.goal, goal_id)

\* db.tasks.outerjoin(db.goals, db.goals.c.id == db.tasks.c.goal), ordered by
\* db.goals.c.date_completed / db.goals.c.date_created
TaskJoinGoals(t, sort_col) ==
    LET linked == { g \in goals : SqlEq(g.id, t.goal) } IN
    IF linked = {}
    THEN { [key |-> Null, row |-> t, goal_name |-> NullText] }
    ELSE { [key |-> GoalOrderKey(g, sort_col), row |-> t,
            goal_name |-> g.goal_name] : g \in linked }

search_tasks(user_id, task_name, goal_id, complete_options, search_page, sort_col, sort_order, tie) ==
    LET arg == [user_id |-> user_id, name |-> task_name, goal_id |-> goal_id,
                complete_options |-> complete_options,
                search_page |-> search_page, sort_col |-> sort_col,
                sort_order |-> sort_order]
        reply(st, b) == [op |-> "search_tasks", arg |-> arg, status |-> st, body |-> b]
        co == EffectiveCompleteOption(sort_col, complete_options)
        selected == UNION { TaskJoinGoals(t, sort_col) :
                        t \in { r \in tasks :
                                  TaskWhere(r, user_id, task_name, goal_id, co) } }
        result == LimitOffset(OrderBy(selected, sort_order, tie), FetchLimit,
                              PageOffset(search_page))
        i == RowsTaken(result)
        res == [j \in 1..i |-> TaskJson(result[j])]
    IN
    /\ UNCHANGED <<users, goals, tasks, userSeq, goalSeq, taskSeq, now>>
    /\ IF search_page < 0
       THEN resp' = reply(200, [error |-> "page out of bounds"])
       ELSE IF PageOutOfBounds(i, search_page)
       THEN resp' = reply(200, [error |-> "page out of bounds"])
       ELSE resp' = reply(200, [user_id |-> user_id,
                                next_page |-> NextPage(result, search_page),
                                start_entry |-> search_page * PageSize,
                                end_entry |-> search_page * PageSize + i - 1,
                                res |-> res])


(***************************************************************************)
(* Specification of the goal handlers: an empty store, then any sequence   *)
(* of create_goal, complete_goal and delete_goal requests.                 *)
(***************************************************************************)
InitEmpty ==
    /\ users = {}
    /\ goals = {}
    /\ tasks = {}
    /\ userSeq = 0
    /\ goalSeq = 0
    /\ taskSeq = 0
    /\ now = 1
    /\ req = NoReq
    /\ txns = <<>>
    /\ client = IdleClient
    /\ resp = NoResp

CreateGoal ==
    /\ \E u \in UserIds, g \in GoalNames : create_goal(u, g)
    /\ UNCHANGED <<req, txns, client>>
CompleteGoal ==
    /\ \E u \in UserIds, i \in GoalIds : complete_goal(u, i)
    /\ UNCHANGED <<req, txns, client>>
DeleteGoal ==
    /\ \E u \in UserIds, i \in GoalIds : delete_goal(u, i)
    /\ UNCHANGED <<req, txns, client>>

NextGoals == CreateGoal \/ CompleteGoal \/ DeleteGoal

SpecGoals == InitEmpty /\ [][NextGoals]_vars

(***************************************************************************)
(* Specification of task creation: an empty store, then any sequence of    *)
(* create_task requests.                                                   *)
(***************************************************************************)
CreateTask ==
    /\ \E u \in UserIds, n \in TaskNames, descr \in DescriptionsIn,
          g \in TaskGoalIdsIn, c \in BOOLEAN, d \in DateStringsIn, m \in MinutesIn :
           create_task(u, n, descr, g, c, d, m)
    /\ UNCHANGED <<req, txns, client>>

NextCreateTask == CreateTask

SpecCreateTask == InitEmpty /\ [][NextCreateTask]_vars

(***************************************************************************)
(* Specification of the user handlers: an empty store, then any sequence   *)
(* of create_user, delete_user and validate_user requests.                 *)
(***************************************************************************)
CreateUser ==
    /\ \E n \in PersonNamesIn, u \in UsernamesIn, p \in PasswordsIn, s \in Salts :
           create_user(n, u, p, s)
    /\ UNCHANGED <<req, txns, client>>
DeleteUser ==
    /\ \E u \in UsernamesIn, p \in PasswordsIn : delete_user(u, p)
    /\ UNCHANGED <<req, txns, client>>

ValidateUser ==
    /\ \E u \in UsernamesIn, p \in PasswordsIn : validate_user(u, p)
    /\ UNCHANGED <<req, txns, client>>

NextUsers == CreateUser \/ DeleteUser \/ ValidateUser

SpecUsers == InitEmpty /\ [][NextUsers]_vars

(***************************************************************************)
(* Specification of ownership.  The store is one the handlers can have     *)
(* built: goal 1 and goal 2 were created, each by one of the two users,    *)
(* then task 1 by one of them, and the task was linked to no goal or by    *)
(* set_task_goal to one of the goals.  Then any sequence of complete_goal, *)
(* delete_goal, complete_task, set_task_goal and delete_task requests of   *)
(* either user follows; ids run over the ids the sequences can hand out,   *)
(* so requests name own rows, rows of the other user, deleted rows and     *)
(* rows never created.                                                     *)
(***************************************************************************)
TaskIds == 1..MaxTaskId
\* date_completed of a complete_task request: absent, a day, 30 February
OwnDatesIn == {NoneStr, <<2024, 1, 5>>, <<2024, 2, 30>>}

InitOwnership ==
    /\ \E og1 \in UserIds, og2 \in UserIds, ot \in UserIds, link \in {Null, 1, 2} :
          /\ goals = { [id |-> 1, user |-> og1, goal_name |-> <<"r", "u", "n">>,
                        complete |-> FALSE, date_created |-> 1,
                        date_completed |-> Null],
                       [id |-> 2, user |-> og2, goal_name |-> <<"R", "e", "a", "d">>,
                        complete |-> FALSE, date_created |-> 2,
                        date_completed |-> Null] }
          /\ tasks = { [id |-> 1, user |-> ot, goal |-> link,
                        task_name |-> <<"g", "y", "m">>, description |-> NullText,
                        complete |-> FALSE, date_created |-> 3,
                        date_completed |-> Null, time_taken |-> Null] }
    /\ goalSeq = 2
    /\ taskSeq = 1
    /\ now = 4
    /\ users = {}
    /\ userSeq = 0
    /\ req = NoReq
    /\ txns = <<>>
    /\ client = IdleClient
    /\ resp = NoResp

OwnCompleteTask ==
    /\ \E u \in UserIds, i \in TaskIds, d \in OwnDatesIn : complete_task(u, i, 30, d)
    /\ UNCHANGED <<req, txns, client>>
SetTaskGoal ==
    /\ \E u \in UserIds, i \in TaskIds, g \in GoalIds : set_task_goal(u, i, g)
    /\ UNCHANGED <<req, txns, client>>
DeleteTask ==
    /\ \E u \in UserIds, i \in TaskIds : delete_task(u, i)
    /\ UNCHANGED <<req, txns, client>>

NextOwnership ==
    \/ CompleteGoal
    \/ DeleteGoal
    \/ OwnCompleteTask
    \/ SetTaskGoal
    \/ DeleteTask

SpecOwnership == InitOwnership /\ [][NextOwnership]_vars

(***************************************************************************)
(* Specification of the life of a task: an empty store, then any sequence  *)
(* of create_task, complete_task, set_task_goal and delete_task requests.  *)
(***************************************************************************)
\* date_completed of a request: absent or a day
LifeDatesIn == {NoneStr, <<2024, 1, 5>>}

LifeCreateTask ==
    /\ \E u \in UserIds, n \in TaskNames, descr \in DescriptionsIn,
          c \in BOOLEAN, d \in LifeDatesIn, m \in MinutesIn :
           create_task(u, n, descr, Null, c, d, m)
    /\ UNCHANGED <<req, txns, client>>
LifeCompleteTask ==
    /\ \E u \in UserIds, i \in TaskIds, m \in MinutesIn \ {Null}, d \in LifeDatesIn :
           complete_task(u, i, m, d)
    /\ UNCHANGED <<req, txns, client>>

LifeSetTaskGoal ==
    /\ \E u \in UserIds, i \in TaskIds : set_task_goal(u, i, 1)
    /\ UNCHANGED <<req, txns, client>>

NextTaskLife == LifeCreateTask \/ LifeCompleteTask \/ LifeSetTaskGoal \/ DeleteTask

SpecTaskLife == InitEmpty /\ [][NextTaskLife]_vars

(***************************************************************************)
(* Specification of the weekday report: an empty store in the week of      *)
(* Epoch, then any sequence of create_task requests (incomplete, or        *)
(* complete on the Wednesday of this week or of the next), complete_task   *)
(* requests without a date, and evaluate_days requests.                    *)
(***************************************************************************)
\* 3 January 2024 and 10 January 2024, both Wednesdays
DaysDatesIn == { <<2024, 1, 3>>, <<2024, 1, 10>> }
DaysGoalIdsIn == {Null, 1}
\* complete, date_completed, minutes_taken of the create_task requests
DaysTaskShapes ==
    { <<FALSE, NoneStr, Null>> } \cup { <<TRUE, d, 30>> : d \in DaysDatesIn }

DaysCreateTask ==
    /\ \E u \in UserIds, n \in TaskNames, descr \in DescriptionsIn,
          g \in DaysGoalIdsIn, sh \in DaysTaskShapes :
           create_task(u, n, descr, g, sh[1], sh[2], sh[3])
    /\ UNCHANGED <<req, txns, client>>
DaysCompleteTask ==
    /\ \E u \in UserIds, i \in TaskIds : complete_task(u, i, 30, NoneStr)
    /\ UNCHANGED <<req, txns, client>>
EvaluateDays ==
    /\ \E u \in UserIds, g \in DaysGoalIdsIn : evaluate_days(u, g)
    /\ UNCHANGED <<req, txns, client>>

NextDays == DaysCreateTask \/ DaysCompleteTask \/ EvaluateDays

SpecDays == InitEmpty /\ [][NextDays]_vars

(***************************************************************************)
(* Specification of references: two users have registered (ids 1 and 2),   *)
(* then any sequence of create_goal, create_task, set_task_goal,           *)
(* delete_goal and delete_user requests.  A request names as goal_id no    *)
(* goal or the id of a goal in the store, of either user; the handlers     *)
(* take user_id as a parameter and never look it up, so requests keep      *)
(* arriving for a user whose row has been deleted.                         *)
(***************************************************************************)
SeedUsers ==
    { [id |-> 1, name |-> "Alice", username |-> <<"a", "l", "i", "c">>,
       password |-> HashWith("salt1", "p@ss1234")],
      [id |-> 2, name |-> "Alice", username |-> [i \in 1..19 |-> "b"],
       password |-> HashWith("salt2", "hunter2")] }

InitReferences ==
    /\ users = SeedUsers
    /\ userSeq = 2
    /\ goals = {}
    /\ tasks = {}
    /\ goalSeq = 0
    /\ taskSeq = 0
    /\ now = 1
    /\ req = NoReq
    /\ txns = <<>>
    /\ client = IdleClient
    /\ resp = NoResp

StoredGoalIds == { g.id : g \in goals }

RefCreateGoal ==
    /\ \E u \in UserIds : create_goal(u, <<"r", "u", "n">>)
    /\ UNCHANGED <<req, txns, client>>
RefCreateTask ==
    /\ \E u \in UserIds, n \in TaskNames, descr \in DescriptionsIn,
          g \in {Null} \cup StoredGoalIds :
           create_task(u, n, descr, g, FALSE, NoneStr, Null)
    /\ UNCHANGED <<req, txns, client>>
RefSetTaskGoal ==
    /\ \E u \in UserIds, i \in TaskIds, g \in StoredGoalIds : set_task_goal(u, i, g)
    /\ UNCHANGED <<req, txns, client>>

NextReferences ==
    \/ RefCreateGoal
    \/ RefCreateTask
    \/ RefSetTaskGoal
    \/ DeleteGoal
    \/ DeleteUser

SpecReferences == InitReferences /\ [][NextReferences]_vars

(***************************************************************************)
(* Specification of concurrent creation: the store is empty, or holds the  *)
(* row of an earlier create_user and create_goal; two create_user          *)
(* requests, or two create_goal requests, have each opened a transaction;  *)
(* their statements and commits interleave in any order.                   *)
(***************************************************************************)
ConcurrentUsernamesIn == { u \in UsernamesIn : is_valid_username(u) }

CreateUserRequests ==
    [op : {"create_user"}, name : PersonNamesIn, username : ConcurrentUsernamesIn,
     password : {"p@ss1234"}, salt : Salts]
CreateGoalRequests ==
    [op : {"create_goal"}, user_id : UserIds, goal_name : GoalNames]

BegunTxn(r) == [req |-> r, pc |-> "begun", written |-> {}, resp |-> NoResp]

InitConcurrent ==
    /\ \/ /\ users = {} /\ goals = {}
          /\ userSeq = 0 /\ goalSeq = 0 /\ now = 1
       \/ /\ users = { [id |-> 1, name |-> "Alice", username |-> <<"a", "l", "i", "c">>,
                         password |-> HashWith("salt1", "p@ss1234")] }
          /\ goals = { [id |-> 1, user |-> 1, goal_name |-> <<"r", "u", "n">>,
                         complete |-> FALSE, date_created |-> 1,
                         date_completed |-> Null] }
          /\ userSeq = 1 /\ goalSeq = 1 /\ now = 2
    /\ tasks = {}
    /\ taskSeq = 0
    /\ req = NoReq
    /\ client = IdleClient
    /\ \/ \E r1 \in CreateUserRequests, r2 \in CreateUserRequests :
             txns = <<BegunTxn(r1), BegunTxn(r2)>>
       \/ \E r1 \in CreateGoalRequests, r2 \in CreateGoalRequests :
             txns = <<BegunTxn(r1), BegunTxn(r2)>>
    /\ resp = NoResp

Execute == \E i \in TxnIds : TxnExecute(i)
Commit == \E i \in TxnIds : TxnCommit(i)

NextConcurrent == Execute \/ Commit

SpecConcurrent == InitConcurrent /\ [][NextConcurrent]_vars

(***************************************************************************)
(* Specification of the searches.  The store is one the handlers can have  *)
(* built: user 1 created goals 1..n and then completed k of them (the      *)
(* first k in creation order, or the last k in reverse order), user 2      *)
(* created two goals and completed one; user 1 then created tasks 1..n     *)
(* (complete for the same k positions, on one of two days, linked to goal  *)
(* 1, goal 2 or no goal) and user 2 one task.  One search request is       *)
(* pending; the step answers it.                                           *)
(***************************************************************************)
\* most goals (and tasks) of user 1 in the seeded store
MaxRows == 11
\* largest search_page requested
MaxPage == 3

Digits == <<"0", "1", "2", "3", "4", "5", "6", "7", "8", "9">>
SeedName(i) ==
    (IF i % 3 = 0 THEN <<"W", "a", "l", "k">> ELSE <<"r", "u", "n">>)
        \o <<Digits[((i \div 10) % 10) + 1], Digits[(i % 10) + 1]>>

SeedCompleteSet(n, k, variant) ==
    IF variant = "first" THEN 1..k ELSE (n - k + 1)..n

SeedGoals(n, k, variant) ==
    { [id |-> i, user |-> 1, goal_name |-> SeedName(i),
       complete |-> i \in SeedCompleteSet(n, k, variant),
       date_created |-> i,
       date_completed |->
           IF i \in SeedCompleteSet(n, k, variant)
           THEN (IF variant = "first" THEN n + 2 + i ELSE 2 * n + 3 - i)
           ELSE Null] : i \in 1..n }
    \cup
    { [id |-> n + 1, user |-> 2, goal_name |-> SeedName(1), complete |-> TRUE,
       date_created |-> n + 1, date_completed |-> 2 * n + 3],
      [id |-> n + 2, user |-> 2, goal_name |-> SeedName(3), complete |-> FALSE,
       date_created |-> n + 2, date_completed |-> Null] }

SeedTaskGoal(i, n) ==
    IF i % 3 = 1 THEN 1 ELSE IF i % 3 = 2 /\ n >= 2 THEN 2 ELSE Null

SeedTasks(n, k, variant) ==
    { [id |-> i, user |-> 1, goal |-> SeedTaskGoal(i, n),
       task_name |-> SeedName(i), description |-> NullText,
       complete |-> i \in SeedCompleteSet(n, k, variant),
       date_created |-> 2 * n + 3 + i,
       date_completed |->
           IF i \in SeedCompleteSet(n, k, variant)
           THEN DateValue(<<2024, 1, 5 + (i % 2)>>) ELSE Null,
       time_taken |->
           IF i \in SeedCompleteSet(n, k, variant) THEN 10 + i ELSE Null]
      : i \in 1..n }
    \cup
    { [id |-> n + 1, user |-> 2, goal |-> n + 1, task_name |-> SeedName(2),
       description |-> NullText, complete |-> TRUE,
       date_created |-> 3 * n + 4, date_completed |-> DateValue(<<2024, 1, 5>>),
       time_taken |-> 30] }

NamePatternsIn == { <<>>, <<"R", "U", "N">> }
SearchGoalIdsIn == {Null, 1}

SearchRequests ==
    [op : {"search_goals"}, user_id : UserIds, name : NamePatternsIn,
     goal_id : {Null}, complete_options : {"incomplete", "complete", "both"},
     search_page : (-1)..MaxPage, sort_col : {"date_created", "date_completed"},
     sort_order : {"asc", "desc"}]
    \cup
    [op : {"search_tasks"}, user_id : UserIds, name : NamePatternsIn,
     goal_id : SearchGoalIdsIn, complete_options : {"incomplete", "complete", "both"},
     search_page : (-1)..MaxPage, sort_col : {"date_created", "date_completed"},
     sort_order : {"asc", "desc"}]

InitSearch ==
    /\ \E n \in 0..MaxRows :
       \E k \in {0, n \div 2, n}, variant \in {"first", "last"} :
          /\ goals = SeedGoals(n, k, variant)
          /\ tasks = SeedTasks(n, k, variant)
          /\ goalSeq = n + 2
          /\ taskSeq = n + 1
          /\ now = 3 * n + 5
    /\ users = {}
    /\ userSeq = 0
    /\ req \in SearchRequests
    /\ txns = <<>>
    /\ client = IdleClient
    /\ resp = NoResp

SearchGoals ==
    /\ req.op = "search_goals"
    /\ \E tie \in TieBreaks :
          search_goals(req.user_id, req.name, req.complete_options,
                       req.search_page, req.sort_col, req.sort_order, tie)
    /\ req' = NoReq
    /\ UNCHANGED <<txns, client>>

SearchTasks ==
    /\ req.op = "search_tasks"
    /\ \E tie \in TieBreaks :
          search_tasks(req.user_id, req.name, req.goal_id, req.complete_options,
                       req.search_page, req.sort_col, req.sort_order, tie)
    /\ req' = NoReq
    /\ UNCHANGED <<txns, client>>

NextSearch == SearchGoals \/ SearchTasks

SpecSearch == InitSearch /\ [][NextSearch]_vars

(***************************************************************************)
(* Specification of paging: the seeded store of the searches, unchanged,   *)
(* and a caller that asks for search_page 0 and then, filter and sort      *)
(* fixed, for each next_page it is given, until it is given -1 or an       *)
(* error.                                                                  *)
(***************************************************************************)
InitPaging ==
    /\ \E n \in 0..MaxRows :
       \E k \in {0, n \div 2, n}, variant \in {"first", "last"} :
          /\ goals = SeedGoals(n, k, variant)
          /\ tasks = SeedTasks(n, k, variant)
          /\ goalSeq = n + 2
          /\ taskSeq = n + 1
          /\ now = 3 * n + 5
    /\ users = {}
    /\ userSeq = 0
    /\ req \in { r \in SearchRequests : r.search_page = 0 }
    /\ txns = <<>>
    /\ client = [pc |-> "paging", fetched |-> <<>>, requests |-> 0]
    /\ resp = NoResp

\* the caller reads the response: it keeps the ids of the page and asks for
\* next_page, or stops at next_page = -1 or at an error
ClientFollow ==
    /\ client.pc = "paging"
    /\ req = NoReq
    /\ resp.op \in {"search_goals", "search_tasks"}
    /\ IF resp.status = 200 /\ "res" \in DOMAIN resp.body
       THEN LET ids == [j \in 1..Len(resp.body.res) |->
                          IF resp.op = "search_goals" THEN resp.body.res[j].goal_id
                          ELSE resp.body.res[j].tasks_id]
            IN  /\ client' = [pc |-> IF resp.body.next_page = -1 THEN "done"
                                     ELSE "paging",
                              fetched |-> client.fetched \o ids,
                              requests |-> client.requests + 1]
                /\ req' = IF resp.body.next_page = -1 THEN NoReq
                          ELSE [op |-> resp.op, user_id |-> resp.arg.user_id,
                                name |-> resp.arg.name, goal_id |-> resp.arg.goal_id,
                                complete_options |-> resp.arg.complete_options,
                                search_page |-> resp.body.next_page,
                                sort_col |-> resp.arg.sort_col,
                                sort_order |-> resp.arg.sort_order]
       ELSE /\ client' = [client EXCEPT !.pc = "failed", !.requests = @ + 1]
            /\ req' = NoReq
    /\ UNCHANGED <<users, goals, tasks, userSeq, goalSeq, taskSeq, now, txns, resp>>

NextPaging == SearchGoals \/ SearchTasks \/ ClientFollow

SpecPaging == InitPaging /\ [][NextPaging]_vars

(***************************************************************************)
(* Claims about the goal handlers (checked under SpecGoals)                *)
(***************************************************************************)
GoalsOfPair(u, g) == { r \in goals : r.user = u /\ r.goal_name = g }

C1_OneRowPerPair ==
    \A r1 \in goals, r2 \in goals :
        (r1.user = r2.user /\ r1.goal_name = r2.goal_name) => r1 = r2

C1_CreateStep ==
    resp'.op = "create_goal" =>
        LET u == resp'.arg.user_id
            g == resp'.arg.goal_name
        IN  IF GoalsOfPair(u, g) = {}
            THEN /\ resp'.status = 200
                 /\ Cardinality(goals') = Cardinality(goals) + 1
                 /\ \E r \in goals' \ goals :
                        /\ goals' = goals \cup {r}
                        /\ r.user = u
                        /\ r.goal_name = g
                        /\ resp'.body.goal_id = r.id
            ELSE /\ resp'.status = 409
                 /\ goals' = goals

\* C1: the goals table holds at most one row per (user, goal_name); a
\* create_goal for a pair without a row inserts exactly one row and returns
\* its id, a create_goal for a pair with a row answers 409 and changes nothing.
C1_UniqueGoalPerUserName ==
    [] C1_OneRowPerPair /\ [][C1_CreateStep]_vars

\* a conflict is reported for a pair that has its one row, beside other rows
C1_Witness ==
    /\ resp.op = "create_goal"
    /\ resp.status = 409
    /\ Cardinality(GoalsOfPair(resp.arg.user_id, resp.arg.goal_name)) = 1
    /\ Cardinality(goals) >= 2
    /\ goalSeq > Cardinality(goals)

C2_CompleteStep ==
    resp'.op = "complete_goal" =>
        LET u == resp'.arg.user_id
            i == resp'.arg.goal_id
            owned == { r \in goals : r.id = i /\ r.user = u }
        IN  owned # {} =>
              /\ resp'.status = 200
              /\ \E r \in owned, q \in goals' :
                    /\ goals' \ {q} = goals \ {r}
                    /\ q.id = r.id
                    /\ q.user = r.user
                    /\ q.goal_name = r.goal_name
                    /\ q.date_created = r.date_created
                    /\ q.complete = TRUE
                    /\ q.date_completed # Null
                    /\ q.date_completed = now
                    /\ r.complete => q.date_completed > r.date_completed

\* C2: complete_goal by the owner sets complete = true and a non-null
\* date_completed; on an already complete goal it succeeds again, keeps id,
\* owner, name and complete = true and moves date_completed to the later time.
C2_CompleteGoalSetsFlagAndDate ==
    [][C2_CompleteStep]_vars

\* the only goal ever created was completed twice (clock ticks 2 and 3)
C2_Witness ==
    /\ resp.op = "complete_goal"
    /\ resp.status = 200
    /\ goalSeq = 1
    /\ \E r \in goals : r.date_created = 1 /\ r.complete /\ r.date_completed = 3

\* C3: every goal row has a non-null date_completed exactly when its
\* complete flag is true.
C3_DateCompletedIffComplete ==
    \A r \in goals : (r.date_completed # Null) <=> (r.complete = TRUE)

\* a complete goal and an incomplete goal side by side, after a delete
C3_Witness ==
    /\ \E r \in goals : r.complete /\ r.date_completed # Null
    /\ \E r \in goals : ~r.complete /\ r.date_completed = Null
    /\ goalSeq > Cardinality(goals)

(***************************************************************************)
(* Claims about create_task (checked under SpecCreateTask)                 *)
(***************************************************************************)
RequiresBothError(r) ==
    /\ "error" \in DOMAIN r.body
    /\ r.body.error = "Completed tasks require minutes_taken and date_completed"

\* C4 as stated: a request with exactly one of minutes_taken and
\* date_completed supplied is rejected, and one with both or neither is never
\* answered 'Completed tasks require minutes_taken and date_completed',
\* whatever complete is.
C4_AsStated ==
    resp.op = "create_task" =>
        LET hasMinutes == resp.arg.minutes_taken # Null
            hasDate == resp.arg.date_completed # NoneStr
        IN  /\ (hasMinutes # hasDate) => RequiresBothError(resp)
            /\ (hasMinutes = hasDate) => ~RequiresBothError(resp)

\* C4 (amended): with "supplied" read as Python reads it (minutes_taken not
\* None and not 0, date_completed not None and not ''), a request with
\* exactly one of the two supplied is rejected, a request with both supplied
\* is accepted exactly when complete is true, and a request with neither
\* supplied is accepted exactly when complete is false.
C4_CompletionFieldsTiedToComplete ==
    resp.op = "create_task" =>
        LET hasMinutes == TruthyInt(resp.arg.minutes_taken)
            hasDate == TruthyStr(resp.arg.date_completed)
        IN  /\ (hasMinutes # hasDate) => RequiresBothError(resp)
            /\ (hasMinutes /\ hasDate) =>
                   (RequiresBothError(resp) <=> resp.arg.complete = FALSE)
            /\ (~hasMinutes /\ ~hasDate) =>
                   (RequiresBothError(resp) <=> resp.arg.complete = TRUE)

\* both fields supplied with complete = false: rejected, after an insert
C4_Witness ==
    /\ resp.op = "create_task"
    /\ resp.arg.complete = FALSE
    /\ TruthyInt(resp.arg.minutes_taken)
    /\ TruthyStr(resp.arg.date_completed)
    /\ RequiresBothError(resp)
    /\ tasks # {}

C5_OneRowPerKey ==
    \A r1 \in tasks, r2 \in tasks :
        ( /\ r1.user = r2.user
          /\ r1.task_name = r2.task_name
          /\ r1.date_completed = r2.date_completed ) => r1 = r2

C5_CreateStep ==
    ( /\ resp'.op = "create_task"
      /\ resp'.status = 200
      /\ ~RequiresBothError(resp')
      /\ ~( /\ "error" \in DOMAIN resp'.body
            /\ resp'.body.error = "Date_completed invalid must be (YYYY-MM-DD)" ) )
    =>  LET a == resp'.arg
            same == { r \in tasks : /\ r.user = a.user_id
                                    /\ r.task_name = a.task_name
                                    /\ r.date_completed = DateParam(a.date_completed) }
        IN  IF same # {}
            THEN /\ "error" \in DOMAIN resp'.body
                 /\ resp'.body.error = "Task Already Created"
                 /\ tasks' = tasks
            ELSE /\ "task_id" \in DOMAIN resp'.body
                 /\ Cardinality(tasks') = Cardinality(tasks) + 1

\* C5: (user, task_name, date_completed) is a dedup key of create_task, also
\* when date_completed is absent: no two rows share the triple, a create_task
\* matching a row answers 'Task Already Created' without inserting, and one
\* with another date_completed is inserted.
C5_DedupKey ==
    [] C5_OneRowPerKey /\ [][C5_CreateStep]_vars

(***************************************************************************)
(* Claims about the user handlers (checked under SpecUsers)                *)
(***************************************************************************)
UsersNamed(u) == { r \in users : r.username = u }

C10_OneRowPerUsername ==
    \A r1 \in users, r2 \in users : r1.username = r2.username => r1 = r2

C10_CreateStep ==
    (resp'.op = "create_user" /\ is_valid_username(resp'.arg.username)) =>
        IF UsersNamed(resp'.arg.username) = {}
        THEN /\ resp'.status = 200
             /\ Cardinality(users') = Cardinality(users) + 1
             /\ \E r \in users' \ users :
                    /\ users' = users \cup {r}
                    /\ r.username = resp'.arg.username
                    /\ resp'.body.id = r.id
        ELSE /\ resp'.status = 409
             /\ users' = users

C10_DeleteStep ==
    (resp'.op = "delete_user" /\ resp'.status = 200) =>
        /\ UsersNamed(resp'.arg.username) # {}
        /\ users' = users \ UsersNamed(resp'.arg.username)

\* C10: no two user rows share a username; create_user with a valid unused
\* username inserts exactly one row and returns its id, with a used one it
\* answers 409 and changes nothing; a successful delete_user frees exactly its
\* username, which can then be created again.
C10_UniqueUsername ==
    [] C10_OneRowPerUsername /\ [][C10_CreateStep]_vars /\ [][C10_DeleteStep]_vars

\* a third insert over two valid usernames: one of them was created, deleted
\* and created again
C10_Witness ==
    /\ resp.op = "create_user"
    /\ resp.status = 200
    /\ resp.body.id = 3
    /\ Cardinality({ u \in UsernamesIn : is_valid_username(u) }) = 2
    /\ UsersNamed(resp.arg.username) # {}

\* the stored hash of row r was made from this password
CredentialMatches(r, password) == r.password[2] = password

C11_Step ==
    resp'.op \in {"validate_user", "delete_user"} =>
        LET rows == UsersNamed(resp'.arg.username)
            matches == \E r \in rows : CredentialMatches(r, resp'.arg.password)
        IN  /\ resp'.status \in {200, 401, 404}
            /\ (resp'.status = 404) <=> (rows = {})
            /\ (resp'.status = 404) => resp'.body = [detail |-> "User not Found"]
            /\ (resp'.status = 401) <=> (rows # {} /\ ~matches)
            /\ (resp'.status = 401) => resp'.body = [detail |-> "Invalid Password"]
            /\ (resp'.status # 200) => users' = users
            /\ resp'.op = "validate_user" =>
                  /\ users' = users
                  /\ resp'.status = 200 => \E r \in rows : resp'.body.id = r.id
            /\ resp'.op = "delete_user" =>
                  /\ (users' # users) => matches
                  /\ matches => /\ Cardinality(rows) = 1
                                /\ users' = users \ rows

\* C11: validate_user and delete_user answer 404 'User not Found' exactly
\* when no row has the username and 401 'Invalid Password' exactly when a row
\* has it and the password does not match; both leave the users table
\* unchanged; delete_user removes a row only when the password matches, and
\* then exactly the row of that username.
C11_DistinctFailures ==
    [][C11_Step]_vars

\* a wrong password for an existing user is refused by delete_user while
\* another user exists and an earlier delete went through
C11_Witness ==
    /\ resp.op = "delete_user"
    /\ resp.status = 401
    /\ UsersNamed(resp.arg.username) # {}
    /\ Cardinality(users) = 2
    /\ userSeq = 3

(***************************************************************************)
(* Claims about ownership (checked under SpecOwnership)                    *)
(***************************************************************************)
GoalOps == {"complete_goal", "delete_goal"}
TaskOps == {"complete_task", "set_task_goal", "delete_task"}

GoalNotFound(r) == r.status = 404 /\ r.body = [detail |-> "Goal Not Found"]
TaskNotFound(r) == r.status = 200 /\ r.body = [error |-> "Task Not Found"]

\* the rows request r is aimed at: the id exists and r's user_id owns the row
OwnedGoalTargets(r) ==
    { g \in goals : g.id = r.arg.goal_id /\ g.user = r.arg.user_id }
OwnedTaskTargets(r) ==
    { t \in tasks : t.id = r.arg.task_id /\ t.user = r.arg.user_id }

\* no goal or task row of a user other than u is changed, removed or added
OthersRowsKept(u) ==
    /\ { g \in goals : g.user # u } = { g \in goals' : g.user # u }
    /\ { t \in tasks : t.user # u } = { t \in tasks' : t.user # u }

\* complete_task was given a date_completed that is present and is no date
MalformedDate(r) ==
    /\ r.op = "complete_task"
    /\ r.arg.date_completed # NoneStr
    /\ ~validate_date(r.arg.date_completed)

C12_StepAsStated ==
    /\ resp'.op \in GoalOps =>
          /\ OwnedGoalTargets(resp') = {} =>
                GoalNotFound(resp') /\ goals' = goals /\ tasks' = tasks
          /\ OthersRowsKept(resp'.arg.user_id)
    /\ resp'.op \in TaskOps =>
          /\ OwnedTaskTargets(resp') = {} =>
                TaskNotFound(resp') /\ goals' = goals /\ tasks' = tasks
          /\ OthersRowsKept(resp'.arg.user_id)

\* C12 as stated: each of the five handlers, called with an id that does not
\* exist or with a user_id that does not own the row, reports not-found and
\* changes no goal or task row; no call changes a row of another user.
C12_AsStated ==
    [][C12_StepAsStated]_vars

C12_Step ==
    /\ resp'.op \in GoalOps =>
          /\ OwnedGoalTargets(resp') = {} =>
                GoalNotFound(resp') /\ goals' = goals /\ tasks' = tasks
          /\ OthersRowsKept(resp'.arg.user_id)
    /\ resp'.op \in TaskOps =>
          /\ OwnedTaskTargets(resp') = {} =>
                /\ goals' = goals /\ tasks' = tasks
                /\ IF MalformedDate(resp')
                   THEN IsError(resp') /\ ~TaskNotFound(resp')
                   ELSE TaskNotFound(resp')
          /\ OthersRowsKept(resp'.arg.user_id)

\* C12 (amended): the same, except that complete_task given a date_completed
\* that is present and is no valid date reports that error instead of
\* not-found (the date is checked before the row is looked up); the rows are
\* unchanged all the same.
C12_OwnerOnly ==
    [][C12_Step]_vars

\* delete_task of the user who does not own task 1 is answered not-found and
\* the task is still there, while the owner had completed it before
C12_Witness ==
    /\ resp.op = "delete_task"
    /\ TaskNotFound(resp)
    /\ \E t \in tasks : /\ t.id = resp.arg.task_id
                         /\ t.user # resp.arg.user_id
                         /\ t.complete

(***************************************************************************)
(* Claims about the life of a task (checked under SpecTaskLife)            *)
(***************************************************************************)
\* C14: every task row with complete = true has time_taken and
\* date_completed both non-null, every task row with complete = false has
\* both null; no row has exactly one of the two set.
C14_CompletionFieldsTogether ==
    \A t \in tasks :
        /\ t.complete = TRUE => (t.time_taken # Null /\ t.date_completed # Null)
        /\ t.complete = FALSE => (t.time_taken = Null /\ t.date_completed = Null)
        /\ (t.time_taken = Null) <=> (t.date_completed = Null)

\* what the rows satisfy: the same, but an incomplete row may hold
\* time_taken = 0
CompletionFieldsUpToZero ==
    \A t \in tasks :
        /\ t.complete = TRUE => (t.time_taken # Null /\ t.date_completed # Null)
        /\ t.complete = FALSE => (t.time_taken \in {Null, 0} /\ t.date_completed = Null)

(***************************************************************************)
(* Claims about evaluate_days (checked under SpecDays).  The report        *)
(* changes neither the tables nor the clock, so the state that holds the   *)
(* response holds the tables and the date the report read.                 *)
(***************************************************************************)
IsDaysReport(r) == r.op = "evaluate_days" /\ "error" \notin DOMAIN r.body

WeekdayOf(ts) == (ts \div TicksPerDay) % 7
WeekOf(ts) == (ts \div TicksPerDay) \div 7

\* the completed tasks of the report's user (and goal, when one is given)
\* completed on weekday number d (0 is Monday) of one of the `weeks`
DaysCounted(r, d, weeks) ==
    { t \in tasks : /\ t.user = r.arg.user_id
                    /\ t.complete = TRUE
                    /\ t.date_completed # Null
                    /\ r.arg.goal_id # Null => t.goal = r.arg.goal_id
                    /\ WeekdayOf(t.date_completed) = d
                    /\ WeekOf(t.date_completed) \in weeks }

\* C13: evaluate_days returns exactly seven entries, one per weekday, each
\* the number of the user's completed tasks (of the goal, when goal_id is
\* given) completed on that weekday of the current calendar week; tasks
\* completed in another week, incomplete tasks and other users' tasks are not
\* counted.
C13_CurrentWeekCounts ==
    resp.op = "evaluate_days" =>
        /\ IsDaysReport(resp)
        /\ Cardinality(DOMAIN resp.body) = 7
        /\ DOMAIN resp.body = { DayNames[d + 1] : d \in 0..6 }
        /\ \A d \in 0..6 :
              resp.body[DayNames[d + 1]] =
                  Cardinality(DaysCounted(resp, d, {WeekOf(now)}))

\* what the report counts: the same, with tasks completed on that weekday of
\* any week
DaysCountAnyWeek ==
    resp.op = "evaluate_days" =>
        /\ IsDaysReport(resp)
        /\ DOMAIN resp.body = { DayNames[d + 1] : d \in 0..6 }
        /\ \A d \in 0..6 :
              resp.body[DayNames[d + 1]] =
                  Cardinality(DaysCounted(resp, d, 0..WeekOf(DateValue(<<2024, 1, 10>>))))

(***************************************************************************)
(* Claims about references (checked under SpecReferences)                  *)
(***************************************************************************)
\* C17: every task whose goal is non-null references a goal row that exists
\* and is owned by the task's user, and no task is left pointing at a
\* removed goal or user.
C17_TaskGoalOfSameOwner ==
    \A t \in tasks :
        /\ t.goal # Null =>
              \E g \in goals : g.id = t.goal /\ g.user = t.user
        /\ \E u \in users : u.id = t.user

(***************************************************************************)
(* Claims about concurrent creation (checked under SpecConcurrent)         *)
(***************************************************************************)
BothDone == \A i \in TxnIds : txns[i].pc = "done"

SameKey ==
    /\ txns[1].req.op = txns[2].req.op
    /\ IF txns[1].req.op = "create_user"
       THEN txns[1].req.username = txns[2].req.username
       ELSE /\ txns[1].req.user_id = txns[2].req.user_id
            /\ txns[1].req.goal_name = txns[2].req.goal_name

RowsOfKey(r) ==
    IF r.op = "create_user" THEN UsersNamed(r.username)
    ELSE GoalsOfPair(r.user_id, r.goal_name)

\* the key had no row before the two requests: every row of the key was
\* inserted by one of them
KeyWasFree ==
    \A row \in RowsOfKey(txns[1].req) :
        \E i \in TxnIds : /\ txns[i].resp.status = 200
                           /\ row.id = (IF txns[i].req.op = "create_user"
                                         THEN txns[i].resp.body.id
                                         ELSE txns[i].resp.body.goal_id)

\* C16: when two create requests for the same key (create_user with one
\* username, create_goal with one (user, goal_name)) run concurrently, each
\* in its own transaction, then however their checks, inserts and commits
\* interleave the store ends with exactly one row for the key, exactly one
\* request succeeded and the other reported the conflict.
C16_OneWinner ==
    (Len(txns) = 2 /\ BothDone /\ SameKey /\ KeyWasFree) =>
        /\ Cardinality(RowsOfKey(txns[1].req)) = 1
        /\ { txns[1].resp.status, txns[2].resp.status } = {200, 409}

\* what holds: a request that executes after the other has committed is the
\* one refused, and then the key has one row
SerialOneWinner ==
    (Len(txns) = 2 /\ BothDone /\ SameKey
       /\ \E i \in TxnIds : txns[i].resp.status = 409) =>
        Cardinality(RowsOfKey(txns[1].req)) = 1

(***************************************************************************)
(* Claims about search_goals and search_tasks (checked under SpecSearch).  *)
(* A search changes no table, so the tables of the state that holds the    *)
(* response are the tables the search read.                                *)
(***************************************************************************)
IsSearch(r) == r.op \in {"search_goals", "search_tasks"}

OutOfBoundsError(r) ==
    \/ r.op = "search_goals" /\ r.status = 400 /\ r.body = [detail |-> "Page out of bounds"]
    \/ r.op = "search_tasks" /\ r.status = 200 /\ r.body = [error |-> "page out of bounds"]

SearchOk(r) == IsSearch(r) /\ r.status = 200 /\ "res" \in DOMAIN r.body

\* the rows of the searched table that pass the user, name and goal filters
\* and have one of the completion flags in `flags`
RowsFiltered(r, flags) ==
    IF r.op = "search_goals"
    THEN { g \in goals : /\ g.user = r.arg.user_id
                         /\ ILikeContains(g.goal_name, r.arg.name)
                         /\ g.complete \in flags }
    ELSE { t \in tasks : /\ t.user = r.arg.user_id
                         /\ ILikeContains(t.task_name, r.arg.name)
                         /\ (r.arg.goal_id \notin {Null, 0} => t.goal = r.arg.goal_id)
                         /\ t.complete \in flags }

FlagsOf(complete_options) ==
    IF complete_options = "complete" THEN {TRUE}
    ELSE IF complete_options = "incomplete" THEN {FALSE}
    ELSE BOOLEAN

\* the rows matching the search of response r: sorting by date_completed
\* narrows the completion filter to complete
Matching(r) ==
    RowsFiltered(r, IF r.arg.sort_col = "date_completed" THEN {TRUE}
                    ELSE FlagsOf(r.arg.complete_options))

MatchCount(r) == Cardinality(Matching(r))

\* the ids of the rows in the body of a successful response, in order
BodyIds(r) ==
    [j \in 1..Len(r.body.res) |->
        IF r.op = "search_goals" THEN r.body.res[j].goal_id
        ELSE r.body.res[j].tasks_id]

DistinctMatchingIds(r) ==
    /\ \A j \in 1..Len(BodyIds(r)) : \E m \in Matching(r) : m.id = BodyIds(r)[j]
    /\ \A j1, j2 \in 1..Len(BodyIds(r)) : BodyIds(r)[j1] = BodyIds(r)[j2] => j1 = j2

\* C6 as stated: for every N, page floor(N/5) is answered successfully with
\* the N mod 5 remainder rows and next_page = -1.
C6_AsStated ==
    (IsSearch(resp) /\ resp.arg.search_page = MatchCount(resp) \div PageSize) =>
        /\ SearchOk(resp)
        /\ Len(resp.body.res) = MatchCount(resp) % PageSize
        /\ DistinctMatchingIds(resp)
        /\ resp.body.next_page = -1

\* C6 (amended): when N is 0 or not a multiple of 5, page floor(N/5) is
\* answered successfully with N mod 5 of the matching rows and next_page = -1;
\* when N is a positive multiple of 5, page N/5 holds no row and is answered
\* with the page-out-of-bounds error.
C6_LastPage ==
    (IsSearch(resp) /\ resp.arg.search_page = MatchCount(resp) \div PageSize) =>
        IF MatchCount(resp) > 0 /\ MatchCount(resp) % PageSize = 0
        THEN OutOfBoundsError(resp)
        ELSE /\ SearchOk(resp)
             /\ Len(resp.body.res) = MatchCount(resp) % PageSize
             /\ DistinctMatchingIds(resp)
             /\ resp.body.next_page = -1

\* eleven tasks match: page 2 holds the one remaining row
C6_Witness ==
    /\ resp.op = "search_tasks"
    /\ MatchCount(resp) = 2 * PageSize + 1
    /\ resp.arg.search_page = 2
    /\ SearchOk(resp)
    /\ Len(resp.body.res) = 1
    /\ resp.body.next_page = -1

\* C7: a negative search_page, and with N > 0 matching rows a search_page
\* beyond the last page that holds rows, is answered with the
\* page-out-of-bounds error and no result body.
C7_OutOfBounds ==
    ( /\ IsSearch(resp)
      /\ \/ resp.arg.search_page < 0
         \/ /\ MatchCount(resp) > 0
            /\ resp.arg.search_page * PageSize >= MatchCount(resp) ) =>
        /\ OutOfBoundsError(resp)
        /\ "res" \notin DOMAIN resp.body

\* six goals match and page 2 is asked for
C7_Witness ==
    /\ resp.op = "search_goals"
    /\ MatchCount(resp) = PageSize + 1
    /\ resp.arg.search_page = 2
    /\ OutOfBoundsError(resp)

\* the requested sort key of a matching row: the row's own timestamp
RequestedKey(r, row) ==
    IF r.arg.sort_col = "date_completed" THEN row.date_completed ELSE row.date_created

RowOfId(r, id) == CHOOSE m \in Matching(r) : m.id = id

\* ids is the page at `offset` of some listing of the matching rows in the
\* requested order (rows with equal keys may come in any order)
IsPageInRequestedOrder(r, ids, offset) ==
    LET L == Len(ids)
        N == MatchCount(r)
        key(j) == RequestedKey(r, RowOfId(r, ids[j]))
        before(x, y) == KeyBefore(x, y, r.arg.sort_order)
        outside == { m \in Matching(r) : \A j \in 1..L : ids[j] # m.id }
        okey(m) == RequestedKey(r, m)
    IN  /\ L = (IF N - offset > PageSize THEN PageSize
                ELSE IF N - offset < 0 THEN 0 ELSE N - offset)
        /\ DistinctMatchingIds(r)
        /\ \A j1, j2 \in 1..L : j1 < j2 => ~before(key(j2), key(j1))
        /\ L > 0 =>
             LET lo == key(1)
                 hi == key(L)
                 mustBefore == { m \in outside :
                                   before(okey(m), lo) \/ (okey(m) = lo /\ lo # hi) }
                 free == { m \in outside : okey(m) = lo /\ lo = hi }
                 between == { m \in outside : before(lo, okey(m)) /\ before(okey(m), hi) }
             IN  /\ between = {}
                 /\ Cardinality(mustBefore) <= offset
                 /\ offset <= Cardinality(mustBefore) + Cardinality(free)

PageAsClaimed(r) ==
    LET P == r.arg.search_page
        N == MatchCount(r)
    IN  (P >= 0 /\ (P = 0 \/ P * PageSize < N)) =>
          /\ SearchOk(r)
          /\ Len(r.body.res) <= PageSize
          /\ IsPageInRequestedOrder(r, BodyIds(r), P * PageSize)
          /\ (r.body.next_page = P + 1) <=> (N > PageSize * (P + 1))
          /\ r.body.next_page \in {P + 1, -1}
          /\ r.body.start_entry = P * PageSize
          /\ r.body.end_entry = P * PageSize + Len(r.body.res) - 1

\* C8: for every in-bounds page P >= 0 over N matching rows the body holds
\* exactly the rows at positions 5P .. min(5P+4, N-1) of the filtered list in
\* the requested sort order, next_page = P+1 iff N > 5(P+1) and -1 otherwise,
\* start_entry = 5P and end_entry = 5P + (rows returned) - 1.
C8_PageContents ==
    IsSearch(resp) => PageAsClaimed(resp)

\* the same statement for search_goals alone
GoalPageContents ==
    resp.op = "search_goals" => PageAsClaimed(resp)

\* the same statement for search_tasks without the order of the rows
TaskPageShape ==
    LET P == resp.arg.search_page
        N == MatchCount(resp)
    IN  (resp.op = "search_tasks" /\ P >= 0 /\ (P = 0 \/ P * PageSize < N)) =>
          /\ SearchOk(resp)
          /\ Len(resp.body.res) =
               (IF N - P * PageSize > PageSize THEN PageSize ELSE N - P * PageSize)
          /\ DistinctMatchingIds(resp)
          /\ (resp.body.next_page = P + 1) <=> (N > PageSize * (P + 1))
          /\ resp.body.next_page \in {P + 1, -1}
          /\ resp.body.start_entry = P * PageSize
          /\ resp.body.end_entry = P * PageSize + Len(resp.body.res) - 1

\* C15: the tasks in the body of a search_tasks response come in the order
\* of the task's own date_created (sort_col = date_created) or own
\* date_completed (sort_col = date_completed), ascending or descending as
\* requested: no task is returned before one that precedes it in that order.
C15_TasksInOwnOrder ==
    (resp.op = "search_tasks" /\ SearchOk(resp)) =>
        \A j1, j2 \in 1..Len(resp.body.res) :
            j1 < j2 =>
                ~KeyBefore(RequestedKey(resp, RowOfId(resp, BodyIds(resp)[j2])),
                           RequestedKey(resp, RowOfId(resp, BodyIds(resp)[j1])),
                           resp.arg.sort_order)

\* what search_tasks does: the tasks come in the order of the date_created
\* or date_completed of the goal each is linked to, tasks without a goal last
\* ascending and first descending
TasksInGoalOrder ==
    (resp.op = "search_tasks" /\ SearchOk(resp)) =>
        LET goalKey(j) ==
                LET t == RowOfId(resp, BodyIds(resp)[j])
                    linked == { g \in goals : t.goal # Null /\ g.id = t.goal }
                IN  IF linked = {} THEN Null
                    ELSE RequestedKey(resp, CHOOSE g \in linked : TRUE)
        IN  \A j1, j2 \in 1..Len(resp.body.res) :
                j1 < j2 => ~KeyBefore(goalKey(j2), goalKey(j1), resp.arg.sort_order)

PageLength(n, page) ==
    IF n - page * PageSize > PageSize THEN PageSize
    ELSE IF n - page * PageSize < 0 THEN 0 ELSE n - page * PageSize

\* C9: with sort_col = date_completed a search returns only complete rows
\* (the page is cut from the complete rows alone) whatever completion filter
\* was passed; with sort_col = date_created the filter is applied as given.
C9_SortByCompletionNarrows ==
    SearchOk(resp) =>
        LET flags == IF resp.arg.sort_col = "date_completed" THEN {TRUE}
                     ELSE FlagsOf(resp.arg.complete_options)
            rows == RowsFiltered(resp, flags)
        IN  /\ \A j \in 1..Len(resp.body.res) :
                  /\ resp.body.res[j].complete \in flags
                  /\ \E m \in rows : m.id = BodyIds(resp)[j]
            /\ Len(resp.body.res) = PageLength(Cardinality(rows), resp.arg.search_page)

\* a search for incomplete goals sorted by date_completed returns complete
\* goals although incomplete ones pass the other filters
C9_Witness ==
    /\ resp.op = "search_goals"
    /\ SearchOk(resp)
    /\ resp.arg.sort_col = "date_completed"
    /\ resp.arg.complete_options = "incomplete"
    /\ Len(resp.body.res) > 0
    /\ \A j \in 1..Len(resp.body.res) : resp.body.res[j].complete = TRUE
    /\ RowsFiltered(resp, {FALSE}) # {}

(***************************************************************************)
(* Claims about paging (checked under SpecPaging)                          *)
(***************************************************************************)
CeilDiv(n, d) == (n + d - 1) \div d

\* the caller fetched every matching row exactly once
FetchedEachOnce ==
    /\ Len(client.fetched) = MatchCount(resp)
    /\ \A m \in Matching(resp) :
          Cardinality({ j \in 1..Len(client.fetched) : client.fetched[j] = m.id }) = 1

PagingRequestCount ==
    IF MatchCount(resp) = 0 THEN 1 ELSE CeilDiv(MatchCount(resp), PageSize)

\* C18: the caller that follows next_page from search_page 0 is never
\* answered with the out-of-bounds error, stops after max(1, ceil(N/5))
\* requests, and has then received each of the N matching rows exactly once.
C18_PagingCoversAll ==
    /\ client.pc # "failed"
    /\ client.pc = "done" =>
          /\ client.requests = PagingRequestCount
          /\ FetchedEachOnce

\* the same statement for search_goals alone
GoalPagingCoversAll ==
    resp.op = "search_goals" =>
        /\ client.pc # "failed"
        /\ client.pc = "done" =>
              /\ client.requests = PagingRequestCount
              /\ FetchedEachOnce

\* the same statement for search_tasks without the rows received
TaskPagingCount ==
    resp.op = "search_tasks" =>
        /\ client.pc # "failed"
        /\ client.pc = "done" =>
              /\ client.requests = PagingRequestCount
              /\ Len(client.fetched) = MatchCount(resp)

=============================================================================
